---------------------------- MODULE Spec2Model ----------------------------
(***************************************************************************)
(* class-sanitizer: the metadata storage of sanitation declarations and    *)
(* the Sanitizer that walks an instance graph applying them.               *)
(*                                                                         *)
(* JavaScript values are tagged records [t, s, n]: t is the type tag, s    *)
(* the characters of a string (one-character strings), n a number, a       *)
(* boolean (0/1) or the identity of an array / object / Date / instance.   *)
(***************************************************************************)
EXTENDS Integers, Sequences, FiniteSets

VARIABLES
    metadata,            \* MetadataStorage: sanitation metadata, in registration order
    constraintMetadata,  \* MetadataStorage: constraint metadata {object, instance}
    container,           \* Sanitizer._container is set
    created,             \* history: per transformer class, instances constructed so far
    nextInstance,        \* history: identity given to the next constructed transformer
    objs0, arrs0,        \* the caller's instance graph when the last call began
    objs, arrs,          \* the caller's instance graph now
    call                 \* the last call: entry point, root, outcome, promise, log

vars == <<metadata, constraintMetadata, container, created, nextInstance,
          objs0, arrs0, objs, arrs, call>>

-----------------------------------------------------------------------------
(* Bounds of the model *)

MaxDecls == 2
MaxStack == 4

-----------------------------------------------------------------------------
(* JavaScript values *)

Undefined == [t |-> "undefined", s |-> <<>>, n |-> 0]
Null == [t |-> "null", s |-> <<>>, n |-> 0]
NaN == [t |-> "NaN", s |-> <<>>, n |-> 0]
Str(chars) == [t |-> "string", s |-> chars, n |-> 0]
Num(k) == [t |-> "number", s |-> <<>>, n |-> k]
Bool(b) == [t |-> "boolean", s |-> <<>>, n |-> IF b THEN 1 ELSE 0]
DateOf(k) == [t |-> "Date", s |-> <<>>, n |-> k]
Arr(id) == [t |-> "array", s |-> <<>>, n |-> id]
Obj(id) == [t |-> "object", s |-> <<>>, n |-> id]
Fn(name) == [t |-> "function", s |-> <<name>>, n |-> 0]
PromiseValue == [t |-> "Promise", s |-> <<>>, n |-> 0]
(* a result the language leaves to the engine *)
ImplementationDefined == [t |-> "implementation-defined", s |-> <<>>, n |-> 0]

DigitChars == <<"0", "1", "2", "3", "4", "5", "6", "7", "8", "9">>
IsDigit(c) == \E i \in 1..10 : DigitChars[i] = c
DigitValue(c) == (CHOOSE i \in 1..10 : DigitChars[i] = c) - 1
Whitespace == {" ", "\t", "\n", "\r"}

RECURSIVE Digits(_)
Digits(k) ==
    IF k < 10 THEN <<DigitChars[k + 1]>>
    ELSE Digits(k \div 10) \o <<DigitChars[(k % 10) + 1]>>

RECURSIVE JoinStrings(_)
JoinStrings(parts) ==
    IF Len(parts) = 0 THEN <<>>
    ELSE IF Len(parts) = 1 THEN parts[1]
    ELSE parts[1] \o <<",">> \o JoinStrings(Tail(parts))

(* The string coercion of '' + input and of a template literal. An array   *)
(* joins its elements with ",", an absent element giving the empty string; *)
(* the model's arrays hold no arrays.                                      *)
PrimitiveToString(v) ==
    CASE v.t = "string" -> v.s
      [] v.t = "undefined" -> <<"u", "n", "d", "e", "f", "i", "n", "e", "d">>
      [] v.t = "null" -> <<"n", "u", "l", "l">>
      [] v.t = "NaN" -> <<"N", "a", "N">>
      [] v.t = "boolean" -> IF v.n = 1 THEN <<"t", "r", "u", "e">>
                            ELSE <<"f", "a", "l", "s", "e">>
      [] v.t = "number" -> IF v.n < 0 THEN <<"-">> \o Digits(0 - v.n) ELSE Digits(v.n)
      [] v.t = "Date" -> <<"D", "a", "t", "e", " ">> \o Digits(v.n)
      [] v.t = "function" -> <<"c", "l", "a", "s", "s", " ">> \o v.s
      [] OTHER -> <<"[", "o", "b", "j", "e", "c", "t", " ", "O", "b", "j", "e", "c", "t", "]">>

ToStringJS(v, heapArrs) ==
    IF v.t = "array"
    THEN JoinStrings([i \in 1..Len(heapArrs[v.n]) |->
                        IF heapArrs[v.n][i].t \in {"undefined", "null"} THEN <<>>
                        ELSE PrimitiveToString(heapArrs[v.n][i])])
    ELSE PrimitiveToString(v)

(* !!input *)
Truthy(v) ==
    CASE v.t \in {"undefined", "null", "NaN"} -> FALSE
      [] v.t = "boolean" -> v.n = 1
      [] v.t = "number" -> v.n # 0
      [] v.t = "string" -> Len(v.s) > 0
      [] OTHER -> TRUE

-----------------------------------------------------------------------------
(* The value utilities the Sanitizer delegates to. A result is either a    *)
(* returned value or a thrown TypeError: the string utilities assert that  *)
(* their input is a string.                                                *)

Return(v) == [ok |-> TRUE, v |-> v]
ThrowTypeError == [ok |-> FALSE, v |-> Undefined]

UpperChars == <<"A", "B", "C", "D", "E", "F", "G", "H", "I", "J", "K", "L", "M",
                "N", "O", "P", "Q", "R", "S", "T", "U", "V", "W", "X", "Y", "Z">>
LowerChars == <<"a", "b", "c", "d", "e", "f", "g", "h", "i", "j", "k", "l", "m",
                "n", "o", "p", "q", "r", "s", "t", "u", "v", "w", "x", "y", "z">>
IsUpper(c) == \E i \in 1..26 : UpperChars[i] = c
IsLower(c) == \E i \in 1..26 : LowerChars[i] = c
LowerChar(c) == IF IsUpper(c) THEN LowerChars[CHOOSE i \in 1..26 : UpperChars[i] = c] ELSE c
ToLowerCase(chars) == [i \in 1..Len(chars) |-> LowerChar(chars[i])]
IsAlnum(c) == IsUpper(c) \/ IsLower(c) \/ IsDigit(c)

CharsOf(chars) == {chars[i] : i \in 1..Len(chars)}
MinOf(S) == CHOOSE x \in S : \A y \in S : x <= y
MaxOf(S) == CHOOSE x \in S : \A y \in S : x >= y
Keep(chars, set) == SelectSeq(chars, LAMBDA c : c \in set)
Drop(chars, set) == SelectSeq(chars, LAMBDA c : c \notin set)
DropLeft(chars, set) ==
    LET rest == {i \in 1..Len(chars) : chars[i] \notin set}
    IN IF rest = {} THEN <<>> ELSE SubSeq(chars, MinOf(rest), Len(chars))
DropRight(chars, set) ==
    LET rest == {i \in 1..Len(chars) : chars[i] \notin set}
    IN IF rest = {} THEN <<>> ELSE SubSeq(chars, 1, MaxOf(rest))

(* value1 as the character class of a RegExp built from it: '[' + chars + ']' *)
CharClass(chars, heapArrs) == CharsOf(ToStringJS(chars, heapArrs))

blacklist(str, chars, heapArrs) ==
    IF str.t # "string" THEN ThrowTypeError
    ELSE Return(Str(Drop(str.s, CharClass(chars, heapArrs))))

EscapeChar(c) ==
    CASE c = "&" -> <<"&", "a", "m", "p", ";">>
      [] c = "\"" -> <<"&", "q", "u", "o", "t", ";">>
      [] c = "'" -> <<"&", "#", "x", "2", "7", ";">>
      [] c = "<" -> <<"&", "l", "t", ";">>
      [] c = ">" -> <<"&", "g", "t", ";">>
      [] c = "/" -> <<"&", "#", "x", "2", "F", ";">>
      [] OTHER -> <<c>>

RECURSIVE EscapeChars(_)
EscapeChars(chars) ==
    IF chars = <<>> THEN <<>> ELSE EscapeChar(Head(chars)) \o EscapeChars(Tail(chars))

escape(str) ==
    IF str.t # "string" THEN ThrowTypeError ELSE Return(Str(EscapeChars(str.s)))

TrimClass(chars, heapArrs) ==
    IF Truthy(chars) THEN CharClass(chars, heapArrs) ELSE Whitespace

ltrim(str, chars, heapArrs) ==
    IF str.t # "string" THEN ThrowTypeError
    ELSE Return(Str(DropLeft(str.s, TrimClass(chars, heapArrs))))

rtrim(str, chars, heapArrs) ==
    IF str.t # "string" THEN ThrowTypeError
    ELSE Return(Str(DropRight(str.s, TrimClass(chars, heapArrs))))

trim(str, chars, heapArrs) ==
    IF str.t # "string" THEN ThrowTypeError
    ELSE Return(Str(DropRight(DropLeft(str.s, TrimClass(chars, heapArrs)),
                              TrimClass(chars, heapArrs))))

whitelist(str, chars, heapArrs) ==
    IF str.t # "string" THEN ThrowTypeError
    ELSE Return(Str(Keep(str.s, CharClass(chars, heapArrs))))

(* Characters below 32 and 127; of those the model's strings hold \t \n \r. *)
stripLow(str, keepNewLines) ==
    IF str.t # "string" THEN ThrowTypeError
    ELSE Return(Str(Drop(str.s, IF Truthy(keepNewLines) THEN {"\t"} ELSE {"\t", "\n", "\r"})))

(* user@label.tld with an alphabetic tld of two letters or more *)
IsEmail(chars) ==
    \E at \in 2..(Len(chars) - 1) :
        /\ chars[at] = "@"
        /\ \A i \in 1..(at - 1) : IsAlnum(chars[i])
        /\ \E dot \in (at + 2)..(Len(chars) - 2) :
            /\ chars[dot] = "."
            /\ \A i \in (at + 1)..(dot - 1) : IsAlnum(chars[i])
            /\ \A i \in (dot + 1)..Len(chars) : IsUpper(chars[i]) \/ IsLower(chars[i])

normalizeEmail(str, lowercase) ==
    IF str.t # "string" THEN ThrowTypeError
    ELSE IF ~IsEmail(str.s) THEN Return(Bool(FALSE))
    ELSE LET at == CHOOSE i \in 1..Len(str.s) : str.s[i] = "@"
             user == SubSeq(str.s, 1, at - 1)
             domain == SubSeq(str.s, at + 1, Len(str.s))
             all_lowercase == IF lowercase.t = "undefined" THEN TRUE ELSE Truthy(lowercase)
         IN Return(Str((IF all_lowercase THEN ToLowerCase(user) ELSE user)
                       \o <<"@">> \o ToLowerCase(domain)))

toBoolean(input, isStrict) ==
    IF input.t = "string"
    THEN IF Truthy(isStrict)
         THEN Return(Bool(input.s \in {<<"1">>, <<"t", "r", "u", "e">>}))
         ELSE Return(Bool(input.s \notin {<<"0">>, <<"f", "a", "l", "s", "e">>, <<>>}))
    ELSE Return(Bool(Truthy(input)))

RECURSIVE NumberOf(_, _)
NumberOf(digits, radix) ==
    IF digits = <<>> THEN 0
    ELSE NumberOf(SubSeq(digits, 1, Len(digits) - 1), radix) * radix
         + DigitValue(digits[Len(digits)])

AllDigits(chars) == chars # <<>> /\ \A i \in 1..Len(chars) : IsDigit(chars[i])

(* Date.parse: a four-digit year is an ISO date; any other bare numeral is *)
(* read by an implementation-defined fallback; every other string of the   *)
(* model is no date.                                                       *)
toDate(input, heapArrs) ==
    IF input.t = "Date" THEN Return(input)
    ELSE IF input.t \in {"undefined", "null"} THEN ThrowTypeError
    ELSE LET text == ToStringJS(input, heapArrs)
         IN IF AllDigits(text)
            THEN IF Len(text) = 4 THEN Return(DateOf(NumberOf(text, 10)))
                 ELSE Return(ImplementationDefined)
            ELSE Return(Null)

Unsigned(chars) ==
    IF chars # <<>> /\ Head(chars) \in {"-", "+"} THEN Tail(chars) ELSE chars
Signed(chars, k) == IF chars # <<>> /\ Head(chars) = "-" THEN 0 - k ELSE k

(* isFloat, then parseFloat; the model's strings hold no "." and no exponent *)
toFloat(input, heapArrs) ==
    LET text == ToStringJS(input, heapArrs)
    IN IF AllDigits(Unsigned(text))
       THEN Return(Num(Signed(text, NumberOf(Unsigned(text), 10))))
       ELSE Return(NaN)

(* parseInt(text, radix || 10): leading whitespace, a sign, then the       *)
(* longest run of digits of the radix                                      *)
toInt(input, radix, heapArrs) ==
    LET text == DropLeft(ToStringJS(input, heapArrs), Whitespace)
        base == IF Truthy(radix) THEN radix.n ELSE 10
        body == Unsigned(text)
        bad == {i \in 1..Len(body) : ~IsDigit(body[i]) \/ DigitValue(body[i]) >= base}
        run == IF bad = {} THEN body ELSE SubSeq(body, 1, MinOf(bad) - 1)
    IN IF run = <<>> THEN Return(NaN)
       ELSE Return(Num(Signed(text, NumberOf(run, base))))

toString(input, heapArrs) == Return(Str(ToStringJS(input, heapArrs)))

-----------------------------------------------------------------------------
(* Declarations: the metadata the decorators add to the storage *)

SanitizeTypes == {"BLACKLIST", "ESCAPE", "LTRIM", "NORMALIZE_EMAIL", "RTRIM", "STRIP_LOW",
                  "TO_BOOLEAN", "TO_DATE", "TO_FLOAT", "TO_INT", "TO_STRING", "TRIM",
                  "WHITELIST", "CUSTOM_SANITIZATION", "NESTED"}

Metadata(type, object, propertyName, value1, each) ==
    [type |-> type, target |-> object, propertyName |-> propertyName,
     value1 |-> value1, each |-> each]

Sanitize(constraintClass, object, propertyName, each) ==
    Metadata("CUSTOM_SANITIZATION", object, propertyName, Fn(constraintClass), each)
Escape(object, propertyName, each) == Metadata("ESCAPE", object, propertyName, Undefined, each)
ToBoolean(isStrict, object, propertyName, each) ==
    Metadata("TO_BOOLEAN", object, propertyName, isStrict, each)
ToDate(target, propertyName, each) == Metadata("TO_DATE", target, propertyName, Undefined, each)
ToString(object, propertyName, each) ==
    Metadata("TO_STRING", object, propertyName, Undefined, each)
SanitizeNested(object, propertyName, each) ==
    Metadata("NESTED", object, propertyName, Undefined, each)

-----------------------------------------------------------------------------
(* Errors *)

NoError == [name |-> "none", message |-> "", type |-> "", value |-> <<>>]
TypeError == [name |-> "TypeError", message |-> "", type |-> "", value |-> <<>>]
RangeError ==
    [name |-> "RangeError", message |-> "Maximum call stack size exceeded",
     type |-> "", value |-> <<>>]
NonArrayError ==
    [name |-> "Error",
     message |-> "Received a non-array value when expected array ('each' was set to true).",
     type |-> "", value |-> <<>>]
WrongTypeError(type, value) ==
    [name |-> "Error", message |-> "Wrong sanitation type is supplied",
     type |-> type, value |-> value]

-----------------------------------------------------------------------------
(* The Sanitizer. A call threads one record through its steps:             *)
(*   objs, arrs   the instance graph, mutated in place                     *)
(*   cons         the storage's constraint metadata (instances are cached) *)
(*   created, next, container   construction counts, the container flag    *)
(*   err          the error thrown so far (NoError: none)                  *)
(*   ret          the value the last completed call returned               *)
(*   log          the steps taken, for the properties below                *)

NoPromise == [state |-> "none", value |-> Undefined, reason |-> NoError]

Event(ev, id, k, c, v) == [ev |-> ev, id |-> id, k |-> k, c |-> c, v |-> v]

Begin(heapObjs, heapArrs) ==
    [objs |-> heapObjs, arrs |-> heapArrs, cons |-> constraintMetadata,
     created |-> created, next |-> nextInstance, container |-> container,
     err |-> NoError, ret |-> Undefined,
     promise |-> NoPromise, log |-> <<>>]

Absent(v) == v.t \in {"undefined", "null"}

(* The sample transformers' sanitize(value). *)
SanitizerSanitize(class, value) ==
    CASE class = "Exclaimer" -> IF value.t = "string" THEN Return(Str(value.s \o <<"!">>))
                                ELSE Return(value)
      [] class = "Nuller" -> Return(Null)
      [] OTHER -> ThrowTypeError

(* The declarations of the instance's class, as indexes into metadata. *)
getSanitizeMetadatasForClassInstance(classInstance, heapObjs) ==
    IF classInstance.t = "object"
    THEN SelectSeq([i \in 1..Len(metadata) |-> i],
                   LAMBDA i : metadata[i].target = heapObjs[classInstance.n].class)
    ELSE <<>>

(* The registrations of the named transformer class, as indexes into cons. *)
getSanitizeConstraintsForClassConstructor(cons, classConstructor) ==
    SelectSeq([c \in 1..Len(cons) |-> c],
              LAMBDA c : Fn(cons[c].object) = classConstructor)

createInstance(st, c) ==
    [st EXCEPT !.cons[c].instance = st.next,
               !.next = @ + 1,
               !.created[st.cons[c].object] = @ + 1,
               !.log = Append(@, Event("construct", st.next, c, st.cons[c].object,
                                       Bool(st.container)))]

(* sanitizeValue's .map(...): an instance is created for a registration    *)
(* that has none yet, and kept on the registration.                        *)
RECURSIVE mapInstances(_, _)
(* faulty variant: an instance is created at every use *)
mapInstancesUncached(st, list) ==
    IF list = <<>> THEN st
    ELSE mapInstances(createInstance(st, Head(list)), Tail(list))

mapInstances(st, list) ==
    IF list = <<>> THEN st
    ELSE mapInstances(IF st.cons[Head(list)].instance = 0
                      THEN createInstance(st, Head(list)) ELSE st,
                      Tail(list))

RECURSIVE reduceSanitizers(_, _, _)
reduceSanitizers(st, list, result) ==
    IF list = <<>> THEN [st EXCEPT !.ret = result]
    ELSE LET sanitizer == st.cons[Head(list)]
             r == SanitizerSanitize(sanitizer.object, result)
             logged == [st EXCEPT !.log = Append(@, Event("transform", sanitizer.instance,
                                                          Head(list), sanitizer.object, result))]
         IN IF r.ok THEN reduceSanitizers(logged, Tail(list), r.v)
            ELSE [logged EXCEPT !.err = TypeError]

Result(st, r) == IF r.ok THEN [st EXCEPT !.ret = r.v] ELSE [st EXCEPT !.err = TypeError]

customSanitization(st, value, md) ==
    LET list == getSanitizeConstraintsForClassConstructor(st.cons, md.value1)
    IN reduceSanitizers(mapInstances(st, list), list, value)

(* faulty variant: an unknown type hands the value back *)
defaultCaseLenient(st, value, md) == [st EXCEPT !.ret = value]

defaultCase(st, value, md) ==
    [st EXCEPT !.err = WrongTypeError(md.type, ToStringJS(value, st.arrs))]

sanitizeValue(st, value, md) ==
    CASE md.type = "BLACKLIST" -> Result(st, blacklist(value, md.value1, st.arrs))
      [] md.type = "ESCAPE" -> Result(st, escape(value))
      [] md.type = "LTRIM" -> Result(st, ltrim(value, md.value1, st.arrs))
      [] md.type = "NORMALIZE_EMAIL" -> Result(st, normalizeEmail(value, md.value1))
      [] md.type = "RTRIM" -> Result(st, rtrim(value, md.value1, st.arrs))
      [] md.type = "STRIP_LOW" -> Result(st, stripLow(value, md.value1))
      [] md.type = "TO_BOOLEAN" -> Result(st, toBoolean(value, md.value1))
      [] md.type = "TO_DATE" -> Result(st, toDate(value, st.arrs))
      [] md.type = "TO_FLOAT" -> Result(st, toFloat(value, st.arrs))
      [] md.type = "TO_INT" -> Result(st, toInt(value, md.value1, st.arrs))
      [] md.type = "TO_STRING" -> Result(st, toString(value, st.arrs))
      [] md.type = "TRIM" -> Result(st, trim(value, md.value1, st.arrs))
      [] md.type = "WHITELIST" -> Result(st, whitelist(value, md.value1, st.arrs))
      [] md.type = "CUSTOM_SANITIZATION" -> customSanitization(st, value, md)
      [] OTHER -> defaultCase(st, value, md)

(* The filter of sanitize: the declarations whose field is now present.    *)
(* faulty variant: the filter keeps truthy fields only                     *)
filterTruthy(list, fields) ==
    SelectSeq(list, LAMBDA i : Truthy(fields[metadata[i].propertyName]))

filterPresent(list, fields) ==
    SelectSeq(list, LAMBDA i : ~Absent(fields[metadata[i].propertyName]))

RECURSIVE sanitize(_, _, _)
RECURSIVE forEachMetadata(_, _, _, _)
RECURSIVE forEachElement(_, _, _, _, _, _)

(* metadata.type === NESTED ? this.sanitize(nested) : this.sanitizeValue(value, metadata) *)
(* faulty variant: NESTED is dispatched like any other type *)
sanitizeValueOnly(st, nested, value, md, depth) == sanitizeValue(st, value, md)

nestedOrValue(st, nested, value, md, depth) ==
    IF md.type = "NESTED" THEN sanitize(st, nested, depth + 1)
    ELSE sanitizeValue(st, value, md)

(* The inner forEach callback at one index of array a. The assignment's    *)
(* target classInstance[propertyName] is read before its right-hand side   *)
(* runs; it is array a unless a re-entrant call replaced the field, and    *)
(* such a call never returns normally.                                     *)
elementUpdate(st, o, i, a, index, depth) ==
    LET md == metadata[i]
        value == st.arrs[a][index]
        target == st.objs[o].f[md.propertyName]
        r == IF target.t # "array" THEN [st EXCEPT !.err = TypeError]
             ELSE nestedOrValue(st, st.arrs[target.n][index], value, md, depth)
    IN IF r.err # NoError THEN r
       ELSE [r EXCEPT !.arrs[target.n][index] = r.ret]

(* The inner forEach over array a, from index on.                          *)
(* faulty variant: the last element is left out                            *)
forEachElementButLast(st, o, i, a, index, depth) ==
    IF index >= Len(st.arrs[a]) \/ st.err # NoError THEN st
    ELSE forEachElement(elementUpdate(st, o, i, a, index, depth), o, i, a, index + 1, depth)

forEachElement(st, o, i, a, index, depth) ==
    IF index > Len(st.arrs[a]) \/ st.err # NoError THEN st
    ELSE forEachElement(elementUpdate(st, o, i, a, index, depth), o, i, a, index + 1, depth)

(* One declaration's field-update step on instance o: the outer forEach    *)
(* callback.                                                               *)
(* faulty variant: no Array.isArray check under each                       *)
fieldUpdateUnchecked(st, o, i, depth) ==
    LET md == metadata[i]
        current == st.objs[o].f[md.propertyName]
        stepped == [st EXCEPT !.log = Append(@, Event("step", o, i, md.type, current))]
    IN IF md.each /\ current.t = "array"
       THEN forEachElement(stepped, o, i, current.n, 1, depth)
       ELSE LET r == nestedOrValue(stepped, current, current, md, depth)
            IN IF r.err # NoError THEN r
               ELSE [r EXCEPT !.objs[o].f[md.propertyName] = r.ret]

(* faulty variant: a field that is absent by now is passed over             *)
fieldUpdateIfPresent(st, o, i, depth) ==
    LET md == metadata[i]
        current == st.objs[o].f[md.propertyName]
        stepped == [st EXCEPT !.log = Append(@, Event("step", o, i, md.type, current))]
    IN IF Absent(current) THEN st
       ELSE IF md.each
       THEN IF current.t # "array" THEN [stepped EXCEPT !.err = NonArrayError]
            ELSE forEachElement(stepped, o, i, current.n, 1, depth)
       ELSE LET r == nestedOrValue(stepped, current, current, md, depth)
            IN IF r.err # NoError THEN r
               ELSE [r EXCEPT !.objs[o].f[md.propertyName] = r.ret]

fieldUpdate(st, o, i, depth) ==
    LET md == metadata[i]
        current == st.objs[o].f[md.propertyName]
        stepped == [st EXCEPT !.log = Append(@, Event("step", o, i, md.type, current))]
    IN IF md.each
       THEN IF current.t # "array" THEN [stepped EXCEPT !.err = NonArrayError]
            ELSE forEachElement(stepped, o, i, current.n, 1, depth)
       ELSE LET r == nestedOrValue(stepped, current, current, md, depth)
            IN IF r.err # NoError THEN r
               ELSE [r EXCEPT !.objs[o].f[md.propertyName] = r.ret]

(* The outer forEach over the kept declarations, in registration order.    *)
(* faulty variant: the declarations run last first                         *)
forEachMetadataLastFirst(st, o, list, depth) ==
    IF list = <<>> \/ st.err # NoError THEN st
    ELSE forEachMetadata(fieldUpdate(st, o, list[Len(list)], depth), o,
                         SubSeq(list, 1, Len(list) - 1), depth)

forEachMetadata(st, o, list, depth) ==
    IF list = <<>> \/ st.err # NoError THEN st
    ELSE forEachMetadata(fieldUpdate(st, o, Head(list), depth), o, Tail(list), depth)

(* sanitize(classInstance). depth counts the nested calls: the engine      *)
(* throws a RangeError when its stack is exhausted.                        *)
(* faulty variant: a failed call puts the graph back as it found it *)
sanitizeRollingBack(st, classInstance, depth) ==
    IF depth > MaxStack THEN [st EXCEPT !.err = RangeError]
    ELSE LET all == getSanitizeMetadatasForClassInstance(classInstance, st.objs)
             kept == IF all = <<>> THEN <<>>
                     ELSE filterPresent(all, st.objs[classInstance.n].f)
             r == forEachMetadata(st, IF all = <<>> THEN 0 ELSE classInstance.n, kept, depth)
         IN IF r.err # NoError THEN [r EXCEPT !.objs = st.objs, !.arrs = st.arrs]
            ELSE [r EXCEPT !.ret = classInstance]

sanitize(st, classInstance, depth) ==
    IF depth > MaxStack THEN [st EXCEPT !.err = RangeError]
    ELSE LET all == getSanitizeMetadatasForClassInstance(classInstance, st.objs)
             kept == IF all = <<>> THEN <<>>
                     ELSE filterPresent(all, st.objs[classInstance.n].f)
             r == forEachMetadata(st, IF all = <<>> THEN 0 ELSE classInstance.n, kept, depth)
         IN IF r.err # NoError THEN r ELSE [r EXCEPT !.ret = classInstance]

(* faulty variant: the error of the body is thrown to the caller *)
sanitizeAsyncThrowing(st, classInstance) == sanitize(st, classInstance, 1)

(* async sanitizeAsync(classInstance): the call returns a promise; the    *)
(* body's return value fulfils it, an error thrown in the body rejects it. *)
sanitizeAsync(st, classInstance) ==
    LET r == sanitize(st, classInstance, 1)
    IN [r EXCEPT !.err = NoError,
                 !.ret = PromiseValue,
                 !.promise = IF r.err = NoError
                             THEN [state |-> "fulfilled", value |-> r.ret, reason |-> NoError]
                             ELSE [state |-> "rejected", value |-> Undefined, reason |-> r.err]]

-----------------------------------------------------------------------------
(* The classes, the declarations and the instance graphs explored *)

Post == "Post"
Tag == "Tag"
TransformerClasses == {"Exclaimer", "Nuller"}

DeclChoices ==
    { ToString(Post, "text", FALSE),
      ToDate(Post, "tags", FALSE),
      Sanitize("Exclaimer", Post, "text", FALSE),
      Sanitize("Nuller", Post, "text", FALSE),
      Metadata("9999", Post, "text", Undefined, FALSE),
      Escape(Post, "tags", TRUE),
      SanitizeNested(Post, "tags", TRUE),
      SanitizeNested(Post, "tags", FALSE),
      Escape(Tag, "text", FALSE),
      SanitizeNested(Tag, "tags", FALSE) }

(* the instance handed to the Sanitizer *)
RootInstance == Obj(1)
Instance(class, text, tags) == [class |-> class, f |-> [text |-> text, tags |-> tags]]
Graph(post, tag1, tag2, array) == [objs |-> <<post, tag1, tag2>>, arrs |-> <<array>>]

(* Instance 1 is the Post handed to the Sanitizer; 2 and 3 are Tags. *)
Inputs ==
    { \* a post with two tags, each with its own text
      Graph(Instance(Post, Str(<<" ", "<", "a", ">">>), Arr(1)),
            Instance(Tag, Str(<<"<", "b">>), Undefined),
            Instance(Tag, Str(<<"n", "/", "a">>), Null),
            <<Obj(2), Obj(3)>>),
      \* present falsy values and absent values
      Graph(Instance(Post, Str(<<>>), Arr(1)),
            Instance(Tag, Undefined, Undefined), Instance(Tag, Undefined, Undefined), <<>>),
      Graph(Instance(Post, Num(0), Null),
            Instance(Tag, Undefined, Undefined), Instance(Tag, Undefined, Undefined), <<>>),
      Graph(Instance(Post, Bool(FALSE), Str(<<"2", "0", "2", "0">>)),
            Instance(Tag, Undefined, Undefined), Instance(Tag, Undefined, Undefined), <<>>),
      Graph(Instance(Post, Undefined, Undefined),
            Instance(Tag, Undefined, Undefined), Instance(Tag, Undefined, Undefined), <<>>),
      \* an array of strings
      Graph(Instance(Post, Null, Arr(1)),
            Instance(Tag, Undefined, Undefined), Instance(Tag, Undefined, Undefined),
            <<Str(<<"<", "a", ">">>), Str(<<"0">>), Str(<<>>)>>),
      \* an array of a string and two tags, the second tag's text a number
      Graph(Instance(Post, Num(7), Arr(1)),
            Instance(Tag, Str(<<"<", "b">>), Undefined), Instance(Tag, Num(0), Undefined),
            <<Str(<<"<", "a", ">">>), Obj(2), Obj(3)>>),
      \* a cycle: the post nests a tag that nests the post
      Graph(Instance(Post, Str(<<"o", "k">>), Obj(2)),
            Instance(Tag, Str(<<"'">>), Obj(1)),
            Instance(Tag, Undefined, Undefined), <<>>) }

NoCall == [fn |-> "none", threw |-> NoError, returned |-> Undefined, promise |-> NoPromise,
           log |-> <<>>]

Init ==
    /\ metadata = <<>>
    /\ constraintMetadata = <<>>
    /\ container = FALSE
    /\ created = [c \in TransformerClasses |-> 0]
    /\ nextInstance = 1
    /\ objs0 = <<>> /\ arrs0 = <<>>
    /\ objs = <<>> /\ arrs = <<>>
    /\ call = NoCall

(* A property decorator runs: the storage appends its metadata. Decorators *)
(* run when their class is defined, before any instance of it exists.      *)
addMetadata(md) ==
    /\ objs = <<>>
    /\ Len(metadata) < MaxDecls
    /\ metadata' = Append(metadata, md)
    /\ UNCHANGED <<constraintMetadata, container, created, nextInstance,
                   objs0, arrs0, objs, arrs, call>>

(* @SanitizerConstraint() on a transformer class, once per class, when the *)
(* class is defined.                                                       *)
SanitizerConstraint(object) ==
    /\ objs = <<>>
    /\ \A c \in 1..Len(constraintMetadata) : constraintMetadata[c].object # object
    /\ constraintMetadata' = Append(constraintMetadata, [object |-> object, instance |-> 0])
    /\ UNCHANGED <<metadata, container, created, nextInstance, objs0, arrs0, objs, arrs, call>>

(* set container(container), when the application starts *)
setContainer ==
    /\ objs = <<>>
    /\ ~container
    /\ container' = TRUE
    /\ UNCHANGED <<metadata, constraintMetadata, created, nextInstance,
                   objs0, arrs0, objs, arrs, call>>

Finish(fn, r) ==
    /\ constraintMetadata' = r.cons
    /\ created' = r.created
    /\ nextInstance' = r.next
    /\ objs' = r.objs
    /\ arrs' = r.arrs
    /\ call' = [fn |-> fn, threw |-> r.err,
                returned |-> IF r.err = NoError THEN r.ret ELSE Undefined,
                promise |-> r.promise, log |-> r.log]
    /\ UNCHANGED <<metadata, container>>

(* The caller builds an instance graph and calls sanitize(post). *)
Sanitizer_sanitize(input) ==
    /\ objs0' = input.objs
    /\ arrs0' = input.arrs
    /\ Finish("sanitize", sanitize(Begin(input.objs, input.arrs), RootInstance, 1))

(* The caller builds an instance graph and calls sanitizeAsync(post). *)
Sanitizer_sanitizeAsync(input) ==
    /\ objs0' = input.objs
    /\ arrs0' = input.arrs
    /\ Finish("sanitizeAsync", sanitizeAsync(Begin(input.objs, input.arrs), RootInstance))

Next ==
    \/ \E md \in DeclChoices : addMetadata(md)
    \/ \E object \in TransformerClasses : SanitizerConstraint(object)
    \/ setContainer
    \/ \E input \in Inputs : Sanitizer_sanitize(input)
    \/ \E input \in Inputs : Sanitizer_sanitizeAsync(input)

Spec == Init /\ [][Next]_vars

-----------------------------------------------------------------------------
(* The storage's reset, as the tests use it: beforeEach(() => reset()).    *)
(* The instances of the test before are dropped with it, and the classes   *)
(* of the next test are defined and decorated after it.                    *)

MaxInstances == 2

(* faulty variant: the declarations survive the reset *)
resetConstraintsOnly(storage) == [storage EXCEPT !.constraintMetadata = <<>>]

(* MetadataStorage.reset(): both lists are emptied, and the transformer    *)
(* instances kept on the registrations go with them.                       *)
reset(storage) == [metadata |-> <<>>, constraintMetadata |-> <<>>]

beforeEach ==
    /\ nextInstance <= MaxInstances
    /\ LET storage == reset([metadata |-> metadata, constraintMetadata |-> constraintMetadata])
       IN /\ metadata' = storage.metadata
          /\ constraintMetadata' = storage.constraintMetadata
    /\ objs0' = <<>> /\ arrs0' = <<>>
    /\ objs' = <<>> /\ arrs' = <<>>
    /\ call' = NoCall
    /\ UNCHANGED <<container, created, nextInstance>>

ResetDecls ==
    { ToString(Post, "text", FALSE),
      Sanitize("Exclaimer", Post, "text", FALSE),
      Escape(Post, "tags", TRUE) }

ResetInputs == {input \in Inputs : input.objs[RootInstance.n].f["text"].t = "string"}

NextReset ==
    \/ \E md \in ResetDecls : addMetadata(md)
    \/ \E object \in TransformerClasses : SanitizerConstraint(object)
    \/ setContainer
    \/ \E input \in ResetInputs : Sanitizer_sanitize(input)
    \/ \E input \in ResetInputs : Sanitizer_sanitizeAsync(input)
    \/ beforeEach

SpecReset == Init /\ [][NextReset]_vars

-----------------------------------------------------------------------------
(* Properties. Declarations are all registered before the first instance   *)
(* exists, so metadata is the registry every call ran against.             *)

Called == call.fn # "none"
Failure == IF call.fn = "sanitizeAsync" THEN call.promise.reason ELSE call.threw
Completed == Called /\ Failure = NoError
Root == RootInstance.n
RootDecls == {i \in 1..Len(metadata) : Called /\ metadata[i].target = objs0[Root].class}
DeclsOn(propertyName) == {i \in RootDecls : metadata[i].propertyName = propertyName}
Steps == {k \in 1..Len(call.log) : call.log[k].ev = "step"}
Stepped(o, i) == \E k \in Steps : call.log[k].id = o /\ call.log[k].k = i
(* what sanitize alone makes of a value of the graph the call began with *)
Alone(value, depth) == sanitize(Begin(objs0, arrs0), value, depth)
ValueAlone(value, md) == sanitizeValue(Begin(objs0, arrs0), value, md)

SingleValue(i) == ~metadata[i].each /\ metadata[i].type # "NESTED"
InOrder(i, j) ==
    /\ i < j
    /\ SingleValue(i) /\ SingleValue(j)
    /\ metadata[i].propertyName = metadata[j].propertyName
    /\ RootDecls = {i, j}
    /\ ~Absent(objs0[Root].f[metadata[i].propertyName])

C2_OrderOfDeclarations ==
    \A i, j \in RootDecls :
        InOrder(i, j) =>
            LET d1 == ValueAlone(objs0[Root].f[metadata[i].propertyName], metadata[i])
                d2 == ValueAlone(d1.ret, metadata[j])
            IN IF d1.err # NoError THEN Failure = d1.err
               ELSE IF d2.err # NoError THEN Failure = d2.err
               ELSE Completed /\ objs[Root].f[metadata[j].propertyName] = d2.ret

(* two different declarations ran on one field, and the other order would  *)
(* have given another value *)
C2_Witness ==
    \E i, j \in RootDecls :
        /\ InOrder(i, j) /\ Completed
        /\ LET v == objs0[Root].f[metadata[i].propertyName]
           IN ValueAlone(ValueAlone(v, metadata[j]).ret, metadata[i]).ret
                # objs[Root].f[metadata[j].propertyName]

(* C3: an each declaration, the only one on its field, on an array of n    *)
(* elements: the field still holds that array, of length n, and element i  *)
(* is the single-value transform of the input's element i, or for NESTED   *)
(* the input's element i after sanitize of it.                             *)
EachOnArray(i) ==
    /\ metadata[i].each
    /\ RootDecls = {i}
    /\ objs0[Root].f[metadata[i].propertyName].t = "array"

C3_EachElement ==
    \A i \in RootDecls :
        EachOnArray(i) =>
            LET field == objs0[Root].f[metadata[i].propertyName]
                a == field.n
            IN /\ objs[Root].f[metadata[i].propertyName] = field
               /\ Len(arrs[a]) = Len(arrs0[a])
               /\ \A index \in 1..Len(arrs0[a]) :
                    LET element == arrs0[a][index]
                        alone == IF metadata[i].type = "NESTED" THEN Alone(element, 2)
                                 ELSE ValueAlone(element, metadata[i])
                    IN alone.err = NoError /\ Completed =>
                        /\ arrs[a][index] = alone.ret
                        /\ element.t = "object" => objs[element.n] = alone.objs[element.n]
               /\ (\A index \in 1..Len(arrs0[a]) :
                    (IF metadata[i].type = "NESTED" THEN Alone(arrs0[a][index], 2)
                     ELSE ValueAlone(arrs0[a][index], metadata[i])).err = NoError)
                  => Completed

(* every element of a three-element array was replaced by its transform, or *)
(* both nested tags were sanitized *)
C3_Witness ==
    \E i \in RootDecls :
        /\ EachOnArray(i) /\ Completed
        /\ LET a == objs0[Root].f[metadata[i].propertyName].n
           IN /\ Len(arrs0[a]) >= 2
              /\ \/ \A index \in 1..2 : arrs[a][index] # arrs0[a][index]
                 \/ \A index \in 1..2 : /\ arrs0[a][index].t = "object"
                                        /\ objs[arrs0[a][index].n] # objs0[arrs0[a][index].n]

(* C4: an each declaration whose step meets a present value that is no     *)
(* array fails the call with the non-array Error (thrown by sanitize,      *)
(* the rejection of sanitizeAsync); the step is the call's last and leaves *)
(* the field as it found it.                                               *)
NonArrayStep(k) ==
    /\ metadata[call.log[k].k].each
    /\ call.log[k].v.t # "array"

C4_NonArrayUnderEach ==
    \A k \in Steps :
        NonArrayStep(k) =>
            /\ Failure = NonArrayError
            /\ call.fn = "sanitize" => call.threw = NonArrayError
            /\ k = Len(call.log)
            /\ objs[call.log[k].id].f[metadata[call.log[k].k].propertyName] = call.log[k].v

(* sanitize threw on a string under each *)
C4_Witness ==
    \E k \in Steps :
        /\ NonArrayStep(k)
        /\ call.log[k].v.t = "string"
        /\ call.fn = "sanitize"
        /\ call.threw = NonArrayError

(* C5: a NESTED declaration, the only one of the instance's class, on a    *)
(* field holding an instance: the call ends as sanitize of that nested     *)
(* instance alone ends, the field still holds the nested instance and the  *)
(* graph is the one that sanitize leaves. With no declaration for the      *)
(* instance's class the call returns the instance and changes nothing.     *)
Resolved == IF call.fn = "sanitizeAsync" THEN call.promise.value ELSE call.returned
NestedOnInstance(i) ==
    /\ metadata[i].type = "NESTED"
    /\ ~metadata[i].each
    /\ RootDecls = {i}
    /\ objs0[Root].f[metadata[i].propertyName].t = "object"

C5_NestedRecursion ==
    /\ \A i \in RootDecls :
        NestedOnInstance(i) =>
            LET nested == objs0[Root].f[metadata[i].propertyName]
                alone == Alone(nested, 2)
            IN /\ Failure = alone.err
               /\ alone.err = NoError =>
                    /\ objs[Root].f[metadata[i].propertyName] = nested
                    /\ objs = alone.objs
                    /\ arrs = alone.arrs
    /\ Called /\ RootDecls = {} =>
        /\ Completed
        /\ Resolved = RootInstance
        /\ objs = objs0 /\ arrs = arrs0
        /\ call.log = <<>>

(* the nested instance was changed by its own class's declaration *)
C5_Witness ==
    \E i \in RootDecls :
        /\ NestedOnInstance(i) /\ Completed
        /\ LET nested == objs0[Root].f[metadata[i].propertyName]
           IN /\ objs[Root].f[metadata[i].propertyName] = nested
              /\ objs[nested.n] # objs0[nested.n]

(* C6 as stated: with a declaration of a kind outside the enumeration      *)
(* registered for the instance's class, the call fails with the Error that *)
(* names the kind.                                                         *)
UnknownKind(i) == metadata[i].type \notin SanitizeTypes

C6_UnknownKindAlwaysFails ==
    \A i \in RootDecls :
        UnknownKind(i) => Failure.name = "Error" /\ Failure.type = metadata[i].type

(* C6 amended: the field-update step of a declaration of unknown kind, on  *)
(* a single value, fails the call with the Error naming the kind and the   *)
(* value; so a call never completes with such a declaration on a field     *)
(* that was present when it began. On an absent field it is skipped.       *)
C6_UnknownKindStepFails ==
    /\ \A k \in Steps :
        UnknownKind(call.log[k].k) /\ ~metadata[call.log[k].k].each =>
            /\ Failure = WrongTypeError(metadata[call.log[k].k].type,
                                        ToStringJS(call.log[k].v, arrs))
            /\ k = Len(call.log)
    /\ \A i \in RootDecls :
        UnknownKind(i) /\ ~metadata[i].each
            /\ ~Absent(objs0[Root].f[metadata[i].propertyName]) => ~Completed

(* the step of kind 9999 ran on a falsy present value and the call failed  *)
(* naming 9999 and the value *)
C6_Witness ==
    \E k \in Steps :
        /\ UnknownKind(call.log[k].k)
        /\ call.log[k].v = Num(0)
        /\ Failure = WrongTypeError("9999", <<"0">>)

(* C7 as stated: the step of a CUSTOM declaration naming a transformer     *)
(* class that was never registered fails the call.                         *)
Registered(classConstructor) ==
    \E c \in 1..Len(constraintMetadata) : Fn(constraintMetadata[c].object) = classConstructor
CustomSteps ==
    {k \in Steps : /\ metadata[call.log[k].k].type = "CUSTOM_SANITIZATION"
                   /\ ~metadata[call.log[k].k].each}

C7_UnregisteredTransformerFails ==
    \A k \in CustomSteps :
        ~Registered(metadata[call.log[k].k].value1) => Failure.name = "Error"

(* C8 as stated: the step of a CUSTOM declaration invokes exactly one      *)
(* transformer, the instance of the class the declaration names, once.     *)
TransformsOf(k) ==
    {t \in (k + 1)..Len(call.log) :
        /\ call.log[t].ev = "transform"
        /\ \A between \in (k + 1)..t : call.log[between].ev # "step"}

C8_ExactlyOneTransformer ==
    \A k \in CustomSteps :
        /\ Cardinality(TransformsOf(k)) = 1
        /\ \A t \in TransformsOf(k) : Fn(call.log[t].c) = metadata[call.log[k].k].value1

C10_AsyncWrapper ==
    call.fn = "sanitizeAsync" =>
        LET alone == Alone(RootInstance, 1)
        IN /\ call.threw = NoError
           /\ call.returned = PromiseValue
           /\ objs = alone.objs /\ arrs = alone.arrs
           /\ IF alone.err = NoError
              THEN call.promise = [state |-> "fulfilled", value |-> RootInstance,
                                   reason |-> NoError]
              ELSE call.promise = [state |-> "rejected", value |-> Undefined,
                                   reason |-> alone.err]

(* sanitizeAsync returned a promise rejected with an error of the walk *)
C10_Witness ==
    /\ call.fn = "sanitizeAsync"
    /\ call.threw = NoError
    /\ call.promise.state = "rejected"
    /\ call.promise.reason = NonArrayError

(* C11: a reset leaves no declaration and no transformer registration,     *)
(* whatever was registered before it, so the lookup of every class's       *)
(* declarations is empty; and a call made while the storage holds no       *)
(* declaration returns the instance with its graph as it was and takes no  *)
(* step.                                                                   *)
CallStep ==
    \E input \in Inputs : Sanitizer_sanitize(input) \/ Sanitizer_sanitizeAsync(input)

C11_ResetClearsRegistry ==
    [][/\ beforeEach =>
            /\ metadata' = <<>>
            /\ constraintMetadata' = <<>>
            /\ \A input \in Inputs : \A o \in 1..Len(input.objs) :
                getSanitizeMetadatasForClassInstance(Obj(o), input.objs)' = <<>>
       /\ CallStep /\ metadata = <<>> =>
            /\ Completed'
            /\ Resolved' = RootInstance
            /\ objs' = objs0' /\ arrs' = arrs0'
            /\ call'.log = <<>>]_vars

(* a call after a reset left a present field alone; a transformer of the   *)
(* declarations registered before the reset had been constructed           *)
C11_Witness ==
    /\ metadata = <<>>
    /\ Called
    /\ created["Exclaimer"] = 1
    /\ objs0[Root].f["text"].t = "string"
    /\ Len(objs0[Root].f["text"].s) > 0
    /\ objs = objs0

(* C12 as stated: every call ends by returning the instance or by an error *)
(* raised before the recursion has used up the engine's stack; a cycle of  *)
(* NESTED fields is such an error, not a recursion that only the stack's   *)
(* end stops.                                                              *)
C12_FailsFastOnCycle ==
    Called =>
        \/ Completed /\ Resolved = RootInstance
        \/ Failure # NoError /\ Failure # RangeError

(* the stack is exhausted by a cycle of NESTED fields only *)
StackExhaustedOnlyByCycle ==
    Failure = RangeError => objs0[objs0[Root].f["tags"].n].f["tags"] = RootInstance

(* C13: which declarations run is decided from the fields as they are when *)
(* the call begins. A declaration whose field was present then runs its    *)
(* step whatever the field holds when its turn comes, unless the call has  *)
(* failed before its turn, and then no later declaration runs either; a    *)
(* declaration whose field was absent then never runs and the field stays  *)
(* as it was.                                                              *)
C13_FilterAtStart ==
    \A i \in RootDecls :
        LET before == objs0[Root].f[metadata[i].propertyName]
        IN /\ Absent(before) =>
                /\ ~Stepped(Root, i)
                /\ objs[Root].f[metadata[i].propertyName] = before
           /\ ~Absent(before) /\ ~Stepped(Root, i) =>
                /\ Failure # NoError
                /\ \A j \in RootDecls : j > i => ~Stepped(Root, j)

(* a step ran on a field that an earlier step of the call had set to null, *)
(* and the call completed *)
C13_Witness ==
    /\ Completed
    /\ \E k \in Steps :
        /\ call.log[k].id = Root
        /\ call.log[k].v = Null
        /\ ~Absent(objs0[Root].f[metadata[call.log[k].k].propertyName])
        /\ objs[Root].f["text"] = Str(<<"n", "u", "l", "l">>)

(* C14: a call that fails rolls nothing back. The declarations before the  *)
(* failing one have run and their writes stand: the graph is the one they  *)
(* leave, changed only by what the failing step did before it failed: the  *)
(* elements of its array before the failing element are replaced, the      *)
(* failing element and those after it are not, and the instance's own      *)
(* fields are as the declarations before left them. No declaration after   *)
(* the failing one runs. (Calls that exhaust the stack are left aside.)    *)
Kept ==
    filterPresent(getSanitizeMetadatasForClassInstance(RootInstance, objs0), objs0[Root].f)
Prefix(n) == forEachMetadata(Begin(objs0, arrs0), Root, SubSeq(Kept, 1, n), 1)
FailingPositions == {n \in 1..Len(Kept) : Prefix(n).err # NoError}
FailingPosition == MinOf(FailingPositions)
BeforeFailing == Prefix(FailingPosition - 1)
FailingDecl == metadata[Kept[FailingPosition]]
FailedWithinLibrary == Called /\ Failure # NoError /\ Failure # RangeError

ElementsUpTo(a, failing) ==
    /\ \A index \in 1..(failing - 1) :
        arrs[a][index] = sanitizeValue(BeforeFailing, BeforeFailing.arrs[a][index], FailingDecl).ret
    /\ \A index \in failing..Len(arrs[a]) : arrs[a][index] = BeforeFailing.arrs[a][index]
    /\ sanitizeValue(BeforeFailing, BeforeFailing.arrs[a][failing], FailingDecl).err = Failure

(* the nested instances before the failing one are as their own sanitize   *)
(* leaves them, those after it as they were                                *)
NestedUpTo(a, failing) ==
    /\ \A index \in 1..Len(arrs[a]) :
        /\ arrs[a][index] = BeforeFailing.arrs[a][index]
        /\ arrs[a][index].t = "object" /\ index # failing =>
            objs[arrs[a][index].n] =
                (IF index < failing THEN sanitize(BeforeFailing, arrs[a][index], 2)
                 ELSE BeforeFailing).objs[arrs[a][index].n]
    /\ sanitize(BeforeFailing, arrs[a][failing], 2).err = Failure

C14_NoRollback ==
    FailedWithinLibrary =>
        /\ FailingPositions # {}
        /\ \A n \in 1..Len(Kept) : Stepped(Root, Kept[n]) <=> n <= FailingPosition
        /\ objs[Root].f = BeforeFailing.objs[Root].f
        /\ LET current == BeforeFailing.objs[Root].f[FailingDecl.propertyName]
           IN /\ FailingDecl.type # "NESTED" => objs = BeforeFailing.objs
              /\ ~(FailingDecl.each /\ current.t = "array") => arrs = BeforeFailing.arrs
              /\ FailingDecl.each /\ current.t = "array" /\ FailingDecl.type # "NESTED" =>
                    /\ Len(arrs[current.n]) = Len(BeforeFailing.arrs[current.n])
                    /\ \E failing \in 1..Len(arrs[current.n]) : ElementsUpTo(current.n, failing)
              /\ FailingDecl.each /\ current.t = "array" /\ FailingDecl.type = "NESTED" =>
                    \E failing \in 1..Len(arrs[current.n]) : NestedUpTo(current.n, failing)

(* the second declaration failed on the second element of its array: the   *)
(* first declaration's write and the first element's replacement stand     *)
C14_Witness ==
    /\ FailedWithinLibrary
    /\ FailingPosition = 2
    /\ objs[Root].f["text"] # objs0[Root].f["text"]
    /\ arrs[1][1] # arrs0[1][1]
    /\ arrs[1][2] = arrs0[1][2]

(* a nested apply failed on the second tag of the array: what the first    *)
(* tag's own declaration wrote stands                                      *)
NestedFailureLeavesWrites ==
    /\ FailedWithinLibrary
    /\ FailingDecl.type = "NESTED"
    /\ objs[2] # objs0[2]
    /\ objs[3] = objs0[3]

(* No explored call hands toDate a numeral the language leaves to the engine. *)
NoImplementationDefinedValue ==
    /\ \A o \in 1..Len(objs) : \A name \in {"text", "tags"} :
        objs[o].f[name] # ImplementationDefined
    /\ \A a \in 1..Len(arrs) : \A index \in 1..Len(arrs[a]) :
        arrs[a][index] # ImplementationDefined

=============================================================================
